---- MODULE Spec2Model ----
(***************************************************************************)
(* Bit-banged serial transceiver (src/src/serial.rs).                      *)
(*                                                                         *)
(* One Serial unit owns an output pin (tx), an input pin (rx) and a        *)
(* periodic timer.  write, flush and read are modelled statement by        *)
(* statement; the pins and the timer are the environment: every pin        *)
(* operation may succeed or fail with some error, every timer poll may     *)
(* answer WouldBlock or Ok, and the timer may stop for good.               *)
(*                                                                         *)
(* trace is the list of pin and timer operations the current (or the last) *)
(* call has performed, in order; a full-period wait is entered in it when  *)
(* the poll loop of wait_for_timer leaves, polls counts the polls of the   *)
(* wait in progress.                                                       *)
(***************************************************************************)
EXTENDS Integers, Sequences, FiniteSets, TLC

VARIABLES pc, op, byte, data_out, data_in, bit, nops, polls,
          trace, result, tx_level, wire, rx_script, timer_stalled,
          times, now, timer_count, timer_elapsed, wave, rx_offset

vars == <<pc, op, byte, data_out, data_in, bit, nops, polls,
          trace, result, tx_level, wire, rx_script, timer_stalled,
          times, now, timer_count, timer_elapsed, wave, rx_offset>>

(* ---- bounds ---------------------------------------------------------- *)
\* WouldBlock answers counted per wait (the counter saturates here)
MaxPolls == 2

\* ticks of the clock in one period of the timer
Period == 2

(* ---- program constants ----------------------------------------------- *)
U8 == 256
NopCount == 5
DataBits == 8
TopBit == 128

Bytes == 0 .. (U8 - 1)
\* values of the pins' associated error type E
PinErrors == {"E1", "E2"}
Levels == {"low", "high"}

(* ---- results --------------------------------------------------------- *)
Pending == [kind |-> "Pending", val |-> 0, err |-> ""]
Ok(v) == [kind |-> "Ok", val |-> v, err |-> ""]
Bus(e) == [kind |-> "Bus", val |-> 0, err |-> e]
InvalidInterrupt == [kind |-> "InvalidInterrupt", val |-> 0, err |-> ""]

(* ---- operations on the collaborators, as entries of trace ------------ *)
Ev(o, r) == [op |-> o, res |-> r]

\* outcomes of OutputPin::set_low / set_high
SetOutcomes == {"ok"} \cup PinErrors
\* outcomes of InputPin::is_high on a line nobody scripts
ReadOutcomes == Levels \cup PinErrors

\* number of samples of the input pin taken so far in this call
Samples(t) == Cardinality({i \in 1 .. Len(t) : t[i].op = "is_high"})

\* the level a line driven as the waveform w tells (a list of drives, each
\* with its instant and its level, in order; the line idles high before the
\* first one) has at the instant t: the level of the last drive up to t (a
\* sample at the very instant of a drive reads the level driven)
LineLevels(w, t) ==
    LET upto == {i \in 1 .. Len(w) : w[i].at <= t}
        last == CHOOSE i \in upto : \A j \in upto : j <= i
    IN  {IF upto = {} THEN "high" ELSE w[last].level}

\* what the input pin may answer to the next sample: the level of the line
\* at this instant when the pin is wired to a line that carries a frame,
\* the next level of the script when one is attached, any level otherwise;
\* a failure in all cases
RxOutcomes(t, script) ==
    IF wave # << >>
    THEN LineLevels(wave, rx_offset + now) \cup PinErrors
    ELSE IF Samples(t) < Len(script)
    THEN {script[Samples(t) + 1]} \cup PinErrors
    ELSE ReadOutcomes

(* ---- u8 arithmetic ---------------------------------------------------- *)
\* Or80 setting bit 6
Or80_bit6(x) == IF (x \div 64) % 2 = 1 THEN x ELSE (x + 64) % U8

Shr1(x) == x \div 2
LowBit(x) == x % 2
Or80(x) == IF (x \div TopBit) % 2 = 1 THEN x ELSE (x + TopBit) % U8

(* ---- control points --------------------------------------------------- *)
WaitPcs == {"w_align", "w_bitwait", "w_stopwait",
            "r_align", "r_bitwait", "r_stopwait"}

Init ==
    /\ pc = "idle"
    /\ op = "none"
    /\ byte = 0
    /\ data_out = 0
    /\ data_in = 0
    /\ bit = 0
    /\ nops = 0
    /\ polls = 0
    /\ trace = << >>
    /\ result = Pending
    /\ tx_level = "none"
    /\ wire = << >>
    /\ rx_script = << >>
    /\ timer_stalled = FALSE
    /\ times = << >>
    /\ now = 0
    /\ timer_count = 0
    /\ timer_elapsed = FALSE
    /\ wave = << >>
    /\ rx_offset = 0

(* ---- helpers of the handlers ------------------------------------------ *)
\* locals of a handler are gone when it returns
Return(r) ==
    /\ result' = r
    /\ pc' = "idle"
    /\ data_out' = 0
    /\ data_in' = 0
    /\ bit' = 0
    /\ nops' = 0
    /\ polls' = 0

\* BitLevel looking at the top bit of the byte instead of the low one
BitLevel_msb(d) == IF (d \div TopBit) % 2 = 1 THEN "high" ELSE "low"

\* the level write drives for the data bit at hand: data_out & 1
BitLevel(d) == IF LowBit(d) = 1 THEN "high" ELSE "low"

\* the pin operation that drives a level
DriveOp(level) == IF level = "high" THEN "set_high" ELSE "set_low"

\* Drive dropping the pin's error (.ok() in place of ?)
Drive_ignore(level, next, d) ==
    \E o \in SetOutcomes :
        /\ trace' = Append(trace, Ev(DriveOp(level), o))
        /\ times' = Append(times, now)
        /\ tx_level' = IF o = "ok" THEN level ELSE tx_level
        /\ wire' = IF o = "ok" THEN Append(wire, level) ELSE wire
        /\ pc' = next
        /\ data_out' = d
        /\ UNCHANGED <<result, data_in, bit, nops, polls>>

\* self.tx.set_xxx().map_err(Error::Bus)?  followed by going to next with
\* data_out = d
Drive(level, next, d) ==
    \E o \in SetOutcomes :
        /\ trace' = Append(trace, Ev(DriveOp(level), o))
        /\ times' = Append(times, now)
        /\ IF o = "ok"
           THEN /\ tx_level' = level
                /\ wire' = Append(wire, level)
                /\ pc' = next
                /\ data_out' = d
                /\ UNCHANGED <<result, data_in, bit, nops, polls>>
           ELSE /\ Return(Bus(o))
                /\ UNCHANGED <<tx_level, wire>>

\* InvalidStart accepting every level
InvalidStart_never(level) == FALSE

\* the precondition of read: a line that reads high is no start bit
InvalidStart(level) == level = "high"

\* Accumulate shifting the other way: data_in <<= 1, then |= 1
Accumulate_shl(d, level) ==
    IF level = "high" THEN ((d * 2) % U8) + 1 ELSE (d * 2) % U8

\* the accumulator of read after one sample: data_in >>= 1, then |= 0x80
Accumulate(d, level) == IF level = "high" THEN Or80(Shr1(d)) ELSE Shr1(d)

\* AfterWait leaving the data loop of read straight for the return, without
\* the wait that spans the stop bit
AfterWait_nostop(p, b) ==
    CASE p = "w_align" -> "w_bit"
      [] p = "w_bitwait" -> IF b + 1 < DataBits THEN "w_bit" ELSE "w_stop"
      [] p = "w_stopwait" -> "w_ret"
      [] p = "r_align" -> "r_bit"
      [] p = "r_bitwait" -> IF b + 1 < DataBits THEN "r_bit" ELSE "r_ret"
      [] p = "r_stopwait" -> "r_ret"

\* AfterWait with data loops of 7 turns
AfterWait_short(p, b) ==
    CASE p = "w_align" -> "w_bit"
      [] p = "w_bitwait" -> IF b + 2 < DataBits THEN "w_bit" ELSE "w_stop"
      [] p = "w_stopwait" -> "w_ret"
      [] p = "r_align" -> "r_bit"
      [] p = "r_bitwait" -> IF b + 2 < DataBits THEN "r_bit" ELSE "r_stopwait"
      [] p = "r_stopwait" -> "r_ret"

\* AfterWait with a ninth turn of the data loop of read, which samples the
\* stop bit
AfterWait_stopcheck(p, b) ==
    CASE p = "w_align" -> "w_bit"
      [] p = "w_bitwait" -> IF b + 1 < DataBits THEN "w_bit" ELSE "w_stop"
      [] p = "w_stopwait" -> "w_ret"
      [] p = "r_align" -> "r_bit"
      [] p = "r_bitwait" -> IF b < DataBits THEN "r_bit" ELSE "r_stopwait"
      [] p = "r_stopwait" -> "r_ret"

\* AfterWait leaving the data loop of write straight for the return, without
\* the stop bit
AfterWait_nostopbit(p, b) ==
    CASE p = "w_align" -> "w_bit"
      [] p = "w_bitwait" -> IF b + 1 < DataBits THEN "w_bit" ELSE "w_ret"
      [] p = "w_stopwait" -> "w_ret"
      [] p = "r_align" -> "r_bit"
      [] p = "r_bitwait" -> IF b + 1 < DataBits THEN "r_bit" ELSE "r_stopwait"
      [] p = "r_stopwait" -> "r_ret"

\* where a handler continues after the wait at control point p, the loop
\* counter being b when the wait was entered
AfterWait(p, b) ==
    CASE p = "w_align" -> "w_bit"
      [] p = "w_bitwait" -> IF b + 1 < DataBits THEN "w_bit" ELSE "w_stop"
      [] p = "w_stopwait" -> "w_ret"
      [] p = "r_align" -> "r_bit"
      [] p = "r_bitwait" -> IF b + 1 < DataBits THEN "r_bit" ELSE "r_stopwait"
      [] p = "r_stopwait" -> "r_ret"

(* ---- calls ------------------------------------------------------------ *)
\* CallWrite sending what was left of the byte of the call before
CallWrite_stale(b) ==
    /\ pc = "idle"
    /\ pc' = "w_start"
    /\ op' = "write"
    /\ byte' = b
    /\ data_out' = byte
    /\ data_in' = 0
    /\ bit' = 0
    /\ nops' = 0
    /\ polls' = 0
    /\ trace' = << >>
    /\ times' = << >>
    /\ result' = Pending
    /\ wire' = << >>
    /\ rx_script' = << >>
    /\ UNCHANGED <<tx_level, timer_stalled>>
    /\ now' = 0
    /\ wave' = << >>
    /\ rx_offset' = 0
    /\ UNCHANGED <<timer_count, timer_elapsed>>

\* write(byte): entry, let mut data_out = byte
CallWrite(b) ==
    /\ pc = "idle"
    /\ pc' = "w_start"
    /\ op' = "write"
    /\ byte' = b
    /\ data_out' = b
    /\ data_in' = 0
    /\ bit' = 0
    /\ nops' = 0
    /\ polls' = 0
    /\ trace' = << >>
    /\ times' = << >>
    /\ result' = Pending
    /\ wire' = << >>
    /\ rx_script' = << >>
    /\ UNCHANGED <<tx_level, timer_stalled>>
    /\ now' = 0
    /\ wave' = << >>
    /\ rx_offset' = 0
    /\ UNCHANGED <<timer_count, timer_elapsed>>

\* read(): entry, let mut data_in = 0.  With loop the input pin presents
\* the levels the output pin took during the write that has just returned
\* Ok, one per sample; without it the input line is free.
CallRead(loop) ==
    /\ pc = "idle"
    /\ loop => (op = "write" /\ result.kind = "Ok")
    /\ pc' = "r_start"
    /\ op' = "read"
    /\ byte' = IF loop THEN byte ELSE 0
    /\ rx_script' = IF loop THEN wire ELSE << >>
    /\ wire' = << >>
    /\ data_out' = 0
    /\ data_in' = 0
    /\ bit' = 0
    /\ nops' = 0
    /\ polls' = 0
    /\ trace' = << >>
    /\ times' = << >>
    /\ result' = Pending
    /\ UNCHANGED <<tx_level, timer_stalled>>
    /\ now' = 0
    /\ wave' = << >>
    /\ rx_offset' = 0
    /\ UNCHANGED <<timer_count, timer_elapsed>>

\* Flush driving the line to idle and waiting a period
Flush_idle ==
    /\ pc = "idle"
    /\ op' = "flush"
    /\ trace' = <<Ev("set_high", "ok")>>
    /\ times' = <<now>>
    /\ tx_level' = "high"
    /\ result' = Pending
    /\ pc' = "w_stopwait"
    /\ UNCHANGED <<byte, data_out, data_in, bit, nops, polls,
                   wire, rx_script, timer_stalled>>
    /\ UNCHANGED <<now, timer_count, timer_elapsed, wave, rx_offset>>

\* flush(): Ok(())
Flush ==
    /\ pc = "idle"
    /\ op' = "flush"
    /\ trace' = << >>
    /\ times' = << >>
    /\ result' = Ok(0)
    /\ UNCHANGED <<pc, byte, data_out, data_in, bit, nops, polls,
                   tx_level, wire, rx_script, timer_stalled>>
    /\ UNCHANGED <<now, timer_count, timer_elapsed, wave, rx_offset>>

(* ---- write ------------------------------------------------------------ *)
\* self.tx.set_low().map_err(Error::Bus)?  -- start bit
WriteStartBit ==
    /\ pc = "w_start"
    /\ Drive("low", "w_reset", data_out)
    /\ UNCHANGED <<op, byte, rx_script, timer_stalled>>
    /\ UNCHANGED <<now, timer_count, timer_elapsed, wave, rx_offset>>

\* one turn of the data loop up to its wait: drive, data_out >>= 1
WriteDataBit ==
    /\ pc = "w_bit"
    /\ Drive(BitLevel(data_out), "w_bitwait", Shr1(data_out))
    /\ UNCHANGED <<op, byte, rx_script, timer_stalled>>
    /\ UNCHANGED <<now, timer_count, timer_elapsed, wave, rx_offset>>

\* self.tx.set_high().map_err(Error::Bus)?  -- stop bit
WriteStopBit ==
    /\ pc = "w_stop"
    /\ Drive("high", "w_stopwait", data_out)
    /\ UNCHANGED <<op, byte, rx_script, timer_stalled>>
    /\ UNCHANGED <<now, timer_count, timer_elapsed, wave, rx_offset>>

\* Ok(())
WriteReturn ==
    /\ pc = "w_ret"
    /\ Return(Ok(0))
    /\ UNCHANGED <<op, byte, trace, times, tx_level, wire, rx_script, timer_stalled>>
    /\ UNCHANGED <<now, timer_count, timer_elapsed, wave, rx_offset>>

(* ---- read ------------------------------------------------------------- *)
\* if self.rx.is_high().map_err(Error::Bus)? { return InvalidInterrupt }
ReadPrecondition ==
    /\ pc = "r_start"
    /\ \E o \in RxOutcomes(trace, rx_script) :
        /\ trace' = Append(trace, Ev("is_high", o))
        /\ times' = Append(times, now)
        /\ IF o \in PinErrors THEN Return(Bus(o))
           ELSE IF InvalidStart(o) THEN Return(InvalidInterrupt)
           ELSE /\ pc' = "r_reset"
                /\ UNCHANGED <<result, data_out, data_in, bit, nops, polls>>
    /\ UNCHANGED <<op, byte, tx_level, wire, rx_script, timer_stalled>>
    /\ UNCHANGED <<now, timer_count, timer_elapsed, wave, rx_offset>>

\* one turn of the data loop up to its wait: data_in >>= 1, sample, |= 0x80
ReadDataBit ==
    /\ pc = "r_bit"
    /\ \E o \in RxOutcomes(trace, rx_script) :
        /\ trace' = Append(trace, Ev("is_high", o))
        /\ times' = Append(times, now)
        /\ IF o \in PinErrors THEN Return(Bus(o))
           ELSE /\ data_in' = Accumulate(data_in, o)
                /\ pc' = "r_bitwait"
                /\ UNCHANGED <<result, data_out, bit, nops, polls>>
    /\ UNCHANGED <<op, byte, tx_level, wire, rx_script, timer_stalled>>
    /\ UNCHANGED <<now, timer_count, timer_elapsed, wave, rx_offset>>

\* ReadReturn putting the output line back to idle
ReadReturn_idle ==
    /\ pc = "r_ret"
    /\ Return(Ok(data_in))
    /\ tx_level' = "high"
    /\ UNCHANGED <<op, byte, trace, times, wire, rx_script, timer_stalled>>
    /\ UNCHANGED <<now, timer_count, timer_elapsed, wave, rx_offset>>

\* Ok(data_in)
ReadReturn ==
    /\ pc = "r_ret"
    /\ Return(Ok(data_in))
    /\ UNCHANGED <<op, byte, trace, times, tx_level, wire, rx_script, timer_stalled>>
    /\ UNCHANGED <<now, timer_count, timer_elapsed, wave, rx_offset>>

(* ---- timing control --------------------------------------------------- *)
\* ResetTimer left out: the handler goes on to its no-ops with the timer
\* as it found it
ResetTimer_skip ==
    /\ pc \in {"w_reset", "r_reset"}
    /\ pc' = IF pc = "w_reset" THEN "w_nop" ELSE "r_nop"
    /\ UNCHANGED <<op, byte, data_out, data_in, bit, nops, polls, result,
                   trace, times, tx_level, wire, rx_script, timer_stalled>>
    /\ UNCHANGED <<now, timer_count, timer_elapsed, wave, rx_offset>>

\* self.reset_timer()
ResetTimer ==
    /\ pc \in {"w_reset", "r_reset"}
    /\ trace' = Append(trace, Ev("reset", "ok"))
    /\ times' = Append(times, now)
    /\ pc' = IF pc = "w_reset" THEN "w_nop" ELSE "r_nop"
    /\ UNCHANGED <<op, byte, data_out, data_in, bit, nops, polls, result,
                   tx_level, wire, rx_script, timer_stalled>>
    /\ timer_count' = 0
    /\ timer_elapsed' = FALSE
    /\ UNCHANGED <<now, wave, rx_offset>>

\* Nop going on to the data loop after the fifth no-op, without the
\* alignment wait
Nop_noalign ==
    /\ pc \in {"w_nop", "r_nop"}
    /\ nops < NopCount
    /\ trace' = Append(trace, Ev("nop", "ok"))
    /\ times' = Append(times, now)
    /\ nops' = nops + 1
    /\ pc' = IF nops + 1 < NopCount THEN pc
             ELSE IF pc = "w_nop" THEN "w_bit" ELSE "r_bit"
    /\ UNCHANGED <<op, byte, data_out, data_in, bit, polls, result,
                   tx_level, wire, rx_script, timer_stalled>>
    /\ UNCHANGED <<now, timer_count, timer_elapsed, wave, rx_offset>>

\* Nop going on, in read only, to the data loop after the fifth no-op,
\* without the alignment wait
Nop_readnoalign ==
    /\ pc \in {"w_nop", "r_nop"}
    /\ nops < NopCount
    /\ trace' = Append(trace, Ev("nop", "ok"))
    /\ times' = Append(times, now)
    /\ nops' = nops + 1
    /\ pc' = IF nops + 1 < NopCount THEN pc
             ELSE IF pc = "w_nop" THEN "w_align" ELSE "r_bit"
    /\ UNCHANGED <<op, byte, data_out, data_in, bit, polls, result,
                   tx_level, wire, rx_script, timer_stalled>>
    /\ UNCHANGED <<now, timer_count, timer_elapsed, wave, rx_offset>>

\* Nop with a loop of four turns
Nop_four ==
    /\ pc \in {"w_nop", "r_nop"}
    /\ nops < NopCount - 1
    /\ trace' = Append(trace, Ev("nop", "ok"))
    /\ times' = Append(times, now)
    /\ nops' = nops + 1
    /\ pc' = IF nops + 1 < NopCount - 1 THEN pc
             ELSE IF pc = "w_nop" THEN "w_align" ELSE "r_align"
    /\ UNCHANGED <<op, byte, data_out, data_in, bit, polls, result,
                   tx_level, wire, rx_script, timer_stalled>>
    /\ UNCHANGED <<now, timer_count, timer_elapsed, wave, rx_offset>>

\* for _ in 0..5 { self.nop() }, one turn
Nop ==
    /\ pc \in {"w_nop", "r_nop"}
    /\ nops < NopCount
    /\ trace' = Append(trace, Ev("nop", "ok"))
    /\ times' = Append(times, now)
    /\ nops' = nops + 1
    /\ pc' = IF nops + 1 < NopCount THEN pc
             ELSE IF pc = "w_nop" THEN "w_align" ELSE "r_align"
    /\ UNCHANGED <<op, byte, data_out, data_in, bit, polls, result,
                   tx_level, wire, rx_script, timer_stalled>>
    /\ UNCHANGED <<now, timer_count, timer_elapsed, wave, rx_offset>>

\* TimerWouldBlock giving up after MaxPolls polls and going on as if the
\* period had elapsed
TimerWouldBlock_timeout ==
    /\ pc \in WaitPcs
    /\ IF polls < MaxPolls
       THEN /\ polls' = polls + 1
            /\ UNCHANGED <<pc, bit>>
       ELSE /\ polls' = 0
            /\ pc' = AfterWait(pc, bit)
            /\ bit' = IF pc \in {"w_bitwait", "r_bitwait"} THEN bit + 1 ELSE bit
    /\ UNCHANGED <<op, byte, data_out, data_in, nops, trace, times, result,
                   tx_level, wire, rx_script, timer_stalled>>
    /\ UNCHANGED <<now, timer_count, timer_elapsed, wave, rx_offset>>

\* TimerWouldBlock handing the WouldBlock of the timer to the caller
\* (self.timer.wait()? without block!)
TimerWouldBlock_propagate ==
    /\ pc \in WaitPcs
    /\ Return([kind |-> "WouldBlock", val |-> 0, err |-> ""])
    /\ UNCHANGED <<op, byte, trace, times, tx_level, wire, rx_script, timer_stalled>>
    /\ UNCHANGED <<now, timer_count, timer_elapsed, wave, rx_offset>>

\* block!(self.timer.wait()): the poll answers WouldBlock, poll again
TimerWouldBlock ==
    /\ pc \in WaitPcs
    /\ polls' = IF polls < MaxPolls THEN polls + 1 ELSE polls
    /\ UNCHANGED <<pc, op, byte, data_out, data_in, bit, nops, trace, times, result,
                   tx_level, wire, rx_script, timer_stalled>>
    /\ UNCHANGED <<now, timer_count, timer_elapsed, wave, rx_offset>>

\* TimerElapsed polling again on Ok as it does on WouldBlock
TimerElapsed_spin ==
    /\ pc \in WaitPcs
    /\ ~timer_stalled
    /\ polls' = IF polls < MaxPolls THEN polls + 1 ELSE polls
    /\ UNCHANGED <<pc, op, byte, data_out, data_in, bit, nops, trace, times, result,
                   tx_level, wire, rx_script, timer_stalled>>
    /\ UNCHANGED <<now, timer_count, timer_elapsed, wave, rx_offset>>

\* block!(self.timer.wait()).ok(): the poll answers Ok, the wait is over
TimerElapsed ==
    /\ pc \in WaitPcs
    /\ ~timer_stalled
    /\ trace' = Append(trace, Ev("wait", "ok"))
    /\ times' = Append(times, now)
    /\ pc' = AfterWait(pc, bit)
    /\ bit' = IF pc \in {"w_bitwait", "r_bitwait"} THEN bit + 1 ELSE bit
    /\ polls' = 0
    /\ UNCHANGED <<op, byte, data_out, data_in, nops, result,
                   tx_level, wire, rx_script, timer_stalled>>
    /\ timer_elapsed' = FALSE
    /\ UNCHANGED <<now, timer_count, wave, rx_offset>>

\* the timer stops counting for good: from now on every poll answers
\* WouldBlock
TimerStall ==
    /\ ~timer_stalled
    /\ timer_stalled' = TRUE
    /\ UNCHANGED <<pc, op, byte, data_out, data_in, bit, nops, polls, trace, times,
                   result, tx_level, wire, rx_script>>
    /\ UNCHANGED <<now, timer_count, timer_elapsed, wave, rx_offset>>

(* ---- the clock ---------------------------------------------------------- *)
\* The handlers take no time but in their waits.  The timer counts the ticks
\* of the clock; when it has counted Period of them it starts again from 0
\* and has the end of a period to report to the next poll.

\* a bit-cell of the nominal symbol rate: the timer runs at twice that rate
BitCell == 2 * Period

\* the instants, counted from the start-bit drive of the frame, at which a
\* unit wired to the line may take the precondition sample of its read: in
\* the start-bit cell, on its edges, and in the cell of the first data bit
Offsets == 0 .. (2 * Period - 1)

\* the drives of the call that has returned, each with its instant
DriveWave(tr, tm) ==
    LET stamped == [i \in 1 .. Len(tr) |-> [e |-> tr[i], at |-> tm[i]]]
        ok == SelectSeq(stamped, LAMBDA z : z.e.op \in {"set_low", "set_high"}
                                            /\ z.e.res = "ok")
    IN  [k \in 1 .. Len(ok) |->
            [at |-> ok[k].at,
             level |-> IF ok[k].e.op = "set_high" THEN "high" ELSE "low"]]

\* one tick passes while a handler waits
Tick ==
    /\ pc \in WaitPcs
    /\ ~timer_stalled
    /\ ~timer_elapsed
    /\ now' = now + 1
    /\ timer_count' = (timer_count + 1) % Period
    /\ timer_elapsed' = (timer_count + 1 = Period)
    /\ UNCHANGED <<pc, op, byte, data_out, data_in, bit, nops, polls, trace,
                   times, result, tx_level, wire, rx_script, timer_stalled,
                   wave, rx_offset>>

\* the timer has been running since it was last used: a call finds it at
\* any count, with or without the end of a period to report
FreeRun ==
    /\ pc \in {"w_start", "r_start"}
    /\ \E c \in 0 .. (Period - 1), e \in BOOLEAN :
        /\ timer_count' = c
        /\ timer_elapsed' = e
    /\ UNCHANGED <<pc, op, byte, data_out, data_in, bit, nops, polls, trace,
                   times, result, tx_level, wire, rx_script, timer_stalled,
                   now, wave, rx_offset>>

\* the poll of a timer that has no end of period to report
TimedWouldBlock == ~timer_elapsed /\ TimerWouldBlock

\* the poll of a timer that has the end of a period to report
TimedElapsed == timer_elapsed /\ TimerElapsed

\* read(): entry on a unit whose input pin is wired to the line on which
\* the write that has just returned Ok sent its frame, s ticks after the
\* start-bit drive of that frame; the unit has its own timer (FreeRun) and
\* the line is one-way, so the frame is replayed to it
CallReadLinked(s) ==
    /\ pc = "idle"
    /\ op = "write"
    /\ result.kind = "Ok"
    /\ pc' = "r_start"
    /\ op' = "read"
    /\ wave' = DriveWave(trace, times)
    /\ rx_offset' = s
    /\ now' = 0
    /\ data_out' = 0
    /\ data_in' = 0
    /\ bit' = 0
    /\ nops' = 0
    /\ polls' = 0
    /\ trace' = << >>
    /\ times' = << >>
    /\ result' = Pending
    /\ wire' = << >>
    /\ rx_script' = << >>
    /\ UNCHANGED <<byte, tx_level, timer_stalled, timer_count, timer_elapsed>>

(* ---- specification ---------------------------------------------------- *)
Step ==
    \/ WriteStartBit
    \/ WriteDataBit
    \/ WriteStopBit
    \/ WriteReturn
    \/ ReadPrecondition
    \/ ReadDataBit
    \/ ReadReturn
    \/ ResetTimer
    \/ Nop

Next ==
    \/ \E b \in Bytes : CallWrite(b)
    \/ \E loop \in BOOLEAN : CallRead(loop)
    \/ Flush
    \/ WriteStartBit
    \/ WriteDataBit
    \/ WriteStopBit
    \/ WriteReturn
    \/ ReadPrecondition
    \/ ReadDataBit
    \/ ReadReturn
    \/ ResetTimer
    \/ Nop
    \/ TimerWouldBlock
    \/ TimerElapsed
    \/ TimerStall

Spec == Init /\ [][Next]_vars

\* the same unit with the clock: time passes in the waits, and a poll
\* reports the end of a period when the timer has counted one
TimedNext ==
    \/ \E b \in Bytes : CallWrite(b)
    \/ \E loop \in BOOLEAN : CallRead(loop)
    \/ \E s \in Offsets : CallReadLinked(s)
    \/ Flush
    \/ WriteStartBit
    \/ WriteDataBit
    \/ WriteStopBit
    \/ WriteReturn
    \/ ReadPrecondition
    \/ ReadDataBit
    \/ ReadReturn
    \/ ResetTimer
    \/ Nop
    \/ TimedWouldBlock
    \/ TimedElapsed
    \/ Tick
    \/ FreeRun

TimedSpec == Init /\ [][TimedNext]_vars

\* the handlers run to their next statement, and a timer that counts
\* reports the end of its period
FairSpec == Spec /\ WF_vars(Step) /\ WF_vars(TimerElapsed)

TypeOK ==
    /\ pc \in {"idle", "w_start", "w_reset", "w_nop", "w_bit", "w_stop",
               "w_ret", "r_start", "r_reset", "r_nop", "r_bit", "r_ret"}
              \cup WaitPcs
    /\ op \in {"none", "write", "read", "flush"}
    /\ byte \in Bytes
    /\ data_out \in Bytes
    /\ data_in \in Bytes
    /\ bit \in 0 .. DataBits
    /\ nops \in 0 .. NopCount
    /\ polls \in 0 .. MaxPolls
    /\ tx_level \in Levels \cup {"none"}
    /\ timer_stalled \in BOOLEAN
    /\ Len(times) = Len(trace)
    /\ now \in 0 .. (12 * Period)
    /\ timer_count \in 0 .. (Period - 1)
    /\ timer_elapsed \in BOOLEAN
    /\ rx_offset \in Offsets

(* ---- reading a trace --------------------------------------------------- *)
IsDrive(e) == e.op \in {"set_low", "set_high"}
IsSample(e) == e.op = "is_high"
IsPinOp(e) == IsDrive(e) \/ IsSample(e)
IsWait(e) == e.op = "wait"
IsTimerOp(e) == e.op \in {"reset", "nop", "wait"}
IsDriveOrWait(e) == IsDrive(e) \/ IsWait(e)
IsSampleOrWait(e) == IsSample(e) \/ IsWait(e)
Failed(e) == e.res \in PinErrors

NoPinFailure(t) == \A i \in 1 .. Len(t) : ~Failed(t[i])

\* the level a successful drive put on the output pin
DrivenLevel(e) == IF e.op = "set_high" THEN "high" ELSE "low"

\* bit i of the byte b, i = 0 being the least significant
BitOf(b, i) == (b \div (2 ^ i)) % 2

Pow2(i) == 2 ^ i

WriteReturned == pc = "idle" /\ op = "write"
ReadReturned == pc = "idle" /\ op = "read"

(* ---- C1 ---------------------------------------------------------------- *)
\* C1: round trip.  When write(b) has returned Ok and the levels it drove
\* are presented, one per sample, to the read that follows (the start bit to
\* the precondition sample, the 8 data levels to the 8 data samples), a read
\* in which no pin operation fails returns Ok(b).
C1_RoundTrip ==
    (ReadReturned /\ Len(rx_script) > 0 /\ NoPinFailure(trace))
        => result = Ok(byte)

\* a looped-back read has returned the byte 0xB2 that was written
C1_Witness ==
    /\ ReadReturned
    /\ Len(rx_script) = 10
    /\ rx_script[1] = "low"
    /\ NoPinFailure(trace)
    /\ byte = 178
    /\ result = Ok(178)

(* ---- C2 ---------------------------------------------------------------- *)
\* the pin operation of the k-th drive of the frame of b, k = 1 .. 10
ExpectedDriveOp(b, k) ==
    IF k = 1 THEN "set_low"
    ELSE IF k = 10 THEN "set_high"
    ELSE IF BitOf(b, k - 2) = 1 THEN "set_high" ELSE "set_low"

\* C2: a write(b) in which no pin operation fails drives the output pin
\* exactly 10 times, low, then bit 0 .. bit 7 of b, then high, and every
\* drive is followed by exactly one completed full-period wait before the
\* next drive or the return.
C2_WriteFrame ==
    (WriteReturned /\ NoPinFailure(trace)) =>
        LET dw == SelectSeq(trace, IsDriveOrWait)
        IN  /\ Len(dw) = 20
            /\ \A k \in 1 .. 10 :
                /\ dw[2 * k - 1] = Ev(ExpectedDriveOp(byte, k), "ok")
                /\ dw[2 * k] = Ev("wait", "ok")

\* write(0xB2) has returned Ok and the line saw
\* low, 0,1,0,0,1,1,0,1, high
C2_Witness ==
    /\ WriteReturned
    /\ result = Ok(0)
    /\ byte = 178
    /\ wire = <<"low", "low", "high", "low", "low", "high", "high", "low",
                "high", "high">>

(* ---- C3 ---------------------------------------------------------------- *)
\* C3: when the first sample of a read succeeds and is high, the read
\* returns InvalidInterrupt and that sample is the only pin or timer
\* operation of the call (no reset, no no-op, no poll, no wait).
C3_InvalidInterrupt ==
    (op = "read" /\ Len(trace) >= 1 /\ trace[1] = Ev("is_high", "high")) =>
        /\ pc = "idle"
        /\ result = InvalidInterrupt
        /\ Len(trace) = 1
        /\ polls = 0
        /\ nops = 0

\* a read has found the line high
C3_Witness ==
    /\ ReadReturned
    /\ trace = <<Ev("is_high", "high")>>
    /\ result = InvalidInterrupt

(* ---- C4 ---------------------------------------------------------------- *)
\* C4: a read that finds the line low and in which no pin read fails
\* performs, between its samples, one alignment wait after the precondition
\* sample, one wait after each of the 8 data samples and one more for the
\* stop bit: 10 completed full-period waits in all, 9 after the alignment
\* wait.
C4_ReadWaits ==
    (ReadReturned /\ NoPinFailure(trace) /\ Len(trace) >= 1
        /\ trace[1] = Ev("is_high", "low")) =>
        LET sw == SelectSeq(trace, IsSampleOrWait)
        IN  /\ Len(SelectSeq(trace, IsWait)) = 10
            /\ Len(sw) = 19
            /\ IsSample(sw[1])
            /\ IsWait(sw[2])
            /\ \A k \in 1 .. 8 : IsSample(sw[2 * k + 1]) /\ IsWait(sw[2 * k + 2])
            /\ IsWait(sw[19])
            /\ IsWait(trace[Len(trace)])

\* a read on a free line has gone through its 10 waits
C4_Witness ==
    /\ ReadReturned
    /\ Len(rx_script) = 0
    /\ result.kind = "Ok"
    /\ Len(SelectSeq(trace, IsWait)) = 10

(* ---- C5 ---------------------------------------------------------------- *)
\* C5: in write and in read, a pin operation that fails with error e is the
\* last operation of the call, and the call has returned Bus(e).
C5_BusFailure ==
    \A i \in 1 .. Len(trace) :
        Failed(trace[i]) =>
            /\ i = Len(trace)
            /\ pc = "idle"
            /\ result = Bus(trace[i].res)

\* a write has failed with E2 at its third data bit
C5_WitnessWrite ==
    /\ WriteReturned
    /\ Len(wire) = 4
    /\ result = Bus("E2")
    /\ Failed(trace[Len(trace)])

(* ---- C6 ---------------------------------------------------------------- *)
\* the level read by the i-th data sample of a read, i = 0 .. 7 (the sample
\* before them is the precondition sample)
DataSample(t, i) == SelectSeq(t, IsSample)[i + 2].res

\* C6: the byte a read returns has bit i set exactly when its i-th data
\* sample was high, the first data sample being bit 0.
C6_BitOrder ==
    (ReadReturned /\ result.kind = "Ok") =>
        /\ Len(SelectSeq(trace, IsSample)) = 9
        /\ \A i \in 0 .. 7 :
            (BitOf(result.val, i) = 1) <=> (DataSample(trace, i) = "high")

\* a read on a free line has sampled high, low, low, low, low, low, high,
\* high and returned 0xC1
C6_Witness ==
    /\ ReadReturned
    /\ Len(rx_script) = 0
    /\ result = Ok(193)
    /\ DataSample(trace, 0) = "high"
    /\ DataSample(trace, 1) = "low"
    /\ DataSample(trace, 7) = "high"

(* ---- C7 ---------------------------------------------------------------- *)
OkDrives(t) == Len(SelectSeq(SelectSeq(t, IsDrive), LAMBDA e : e.res = "ok"))
OkSamples(t) == Len(SelectSeq(SelectSeq(t, IsSample), LAMBDA e : e.res \in Levels))
Waits(t) == Len(SelectSeq(t, IsWait))

\* C7: no frame is partially reported as successful.  A write that has
\* returned Ok has completed 10 drives and 10 waits; a read that has
\* returned Ok has seen its precondition sample low, taken 8 more samples
\* that succeeded and completed the stop-bit wait as its last operation.
C7_NoPartialFrame ==
    /\ (WriteReturned /\ result.kind = "Ok") =>
            /\ OkDrives(trace) = 10
            /\ Waits(trace) = 10
            /\ NoPinFailure(trace)
            /\ IsWait(trace[Len(trace)])
    /\ (ReadReturned /\ result.kind = "Ok") =>
            /\ trace[1] = Ev("is_high", "low")
            /\ OkSamples(trace) = 9
            /\ Waits(trace) = 10
            /\ NoPinFailure(trace)
            /\ IsWait(trace[Len(trace)])
    /\ (pc # "idle") => result = Pending

\* a write of 0x00 and the read of its frame have been reported successful
C7_Witness ==
    /\ ReadReturned
    /\ result = Ok(0)
    /\ Len(rx_script) = 10
    /\ byte = 0

(* ---- C8 ---------------------------------------------------------------- *)
\* C8: flush returns Ok and performs no pin operation and no timer
\* operation, whatever came before: the step that leaves the unit with a
\* flush as its last call leaves it returned, with Ok, with no operation
\* performed, and with the output line and what was driven on it untouched.
C8_FlushNoOp ==
    [][(op' = "flush") =>
            /\ pc = "idle"
            /\ pc' = "idle"
            /\ result' = Ok(0)
            /\ trace' = << >>
            /\ polls' = 0
            /\ tx_level' = tx_level
            /\ wire' = wire]_vars

\* flush has returned after a write that failed in the middle of its frame
\* and left the line low
C8_Witness ==
    /\ op = "flush"
    /\ pc = "idle"
    /\ result = Ok(0)
    /\ tx_level = "low"
    /\ Len(wire) = 3

(* ---- C9 ---------------------------------------------------------------- *)
\* C9: with a timer whose polls eventually report that the period elapsed
\* (a timer that does not stop), every call to write and to read returns,
\* whatever the byte, the pin levels and the pin failures.
C9_Terminates == (pc # "idle") ~> (pc = "idle" \/ timer_stalled)

\* a write has returned Ok on a timer that is still counting
C9_Witness ==
    /\ WriteReturned
    /\ result.kind = "Ok"
    /\ ~timer_stalled
    /\ Waits(trace) = 10
    /\ byte = 255

(* ---- C10 --------------------------------------------------------------- *)
\* the poll of the step has reported that the period elapsed
ElapsedReported == ~timer_stalled /\ trace' = Append(trace, Ev("wait", "ok"))

\* C10: a full-period wait has no timeout.  A call that is in a wait leaves
\* it only when a poll reports that the period elapsed; until then it stays
\* in that wait, does not return and performs no pin operation, and a timer
\* that has stopped never reports.
C10_NoTimeout ==
    [][(pc \in WaitPcs) =>
            \/ ElapsedReported
            \/ /\ pc' = pc
               /\ result' = Pending
               /\ result = Pending
               /\ trace' = trace
               /\ tx_level' = tx_level
               /\ (timer_stalled => timer_stalled')]_vars

\* a write whose start bit was driven, and nothing else, is polling a
\* stopped timer in its alignment wait
C10_Witness ==
    /\ timer_stalled
    /\ pc = "w_align"
    /\ polls = MaxPolls
    /\ SelectSeq(trace, IsPinOp) = <<Ev("set_low", "ok")>>
    /\ result = Pending

(* ---- C11 --------------------------------------------------------------- *)
\* C11: within one write exactly one completed full-period wait lies
\* between every two consecutive drives of the output pin, and within one
\* read exactly one between every two consecutive samples of the input pin,
\* the precondition sample and the first data sample included.
C11_OneWaitBetween ==
    /\ (op = "write") =>
        LET dw == SelectSeq(trace, IsDriveOrWait)
        IN  \A i \in 1 .. Len(dw) :
                (IsDrive(dw[i]) /\ \E j \in (i + 1) .. Len(dw) : IsDrive(dw[j]))
                    => /\ IsWait(dw[i + 1])
                       /\ IsDrive(dw[i + 2])
    /\ (op = "read") =>
        LET sw == SelectSeq(trace, IsSampleOrWait)
        IN  \A i \in 1 .. Len(sw) :
                (IsSample(sw[i]) /\ \E j \in (i + 1) .. Len(sw) : IsSample(sw[j]))
                    => /\ IsWait(sw[i + 1])
                       /\ IsSample(sw[i + 2])

\* a write is about to drive its stop bit and a wait lies between each two
\* of its 9 drives
C11_Witness ==
    /\ op = "write"
    /\ pc = "w_stop"
    /\ Len(SelectSeq(trace, IsDrive)) = 9
    /\ Waits(trace) = 9

(* ---- C12 --------------------------------------------------------------- *)
\* the timer operations a call begins with, by position in its trace (the
\* first entry of the trace is the start-bit drive or the precondition
\* sample)
Preamble(i) ==
    IF i = 2 THEN Ev("reset", "ok")
    ELSE IF i \in 3 .. 7 THEN Ev("nop", "ok")
    ELSE Ev("wait", "ok")

PreambleLen == NopCount + 3

PassedFirstPinOp ==
    /\ op \in {"write", "read"}
    /\ Len(trace) >= 1
    /\ trace[1] \in {Ev("set_low", "ok"), Ev("is_high", "low")}

\* C12: in a write whose start-bit drive succeeded and in a read whose
\* precondition passed, the operations after the first pin operation are one
\* reset, five no-ops and one full-period wait, in that order, before any
\* data bit is driven or sampled; the timer is reset once in the call, and no
\* poll of the timer happens before the fifth no-op is done.
C12_Preamble ==
    PassedFirstPinOp =>
        /\ \A i \in 2 .. Len(trace) :
            IF i <= PreambleLen
            THEN trace[i] = Preamble(i)
            ELSE trace[i].op \notin {"reset", "nop"}
        /\ (pc \in {"w_reset", "w_nop", "r_reset", "r_nop"}) => polls = 0
        /\ (pc = "idle" /\ result.kind = "Ok") => Len(trace) > PreambleLen
        /\ (pc \notin {"idle", "w_reset", "w_nop", "r_reset", "r_nop",
                       "w_align", "r_align"}) => Len(trace) >= PreambleLen

\* a read is about to take its first data sample, after reset, five no-ops
\* and the alignment wait
C12_Witness ==
    /\ op = "read"
    /\ pc = "r_bit"
    /\ bit = 0
    /\ Len(trace) = PreambleLen
    /\ trace[2].op = "reset"
    /\ trace[7].op = "nop"
    /\ trace[8].op = "wait"

(* ---- C14 --------------------------------------------------------------- *)
\* C14: after a pin operation of write or read has failed the call performs
\* no timer operation (reset, no-op, poll or wait); when it is the start-bit
\* drive or the precondition sample that failed, the call has performed no
\* timer operation at all.
C14_NoTimerAfterFailure ==
    \A i \in 1 .. Len(trace) :
        Failed(trace[i]) =>
            /\ \A j \in (i + 1) .. Len(trace) : ~IsTimerOp(trace[j])
            /\ pc \notin WaitPcs \cup {"w_reset", "w_nop", "r_reset", "r_nop"}
            /\ polls = 0
            /\ (i = 1) => (\A j \in 1 .. Len(trace) : ~IsTimerOp(trace[j]))

\* the precondition sample of a read has failed and the call has returned
\* without touching the timer
C14_Witness ==
    /\ ReadReturned
    /\ trace = <<Ev("is_high", "E1")>>
    /\ result = Bus("E1")
    /\ polls = 0

(* ---- C15 --------------------------------------------------------------- *)
\* the byte made of the 8 data samples of t, the first one being bit 0
SampleValue(t) ==
    LET v[i \in 0 .. 8] ==
            IF i = 0 THEN 0
            ELSE v[i - 1]
                 + (IF DataSample(t, i - 1) = "high" THEN Pow2(i - 1) ELSE 0)
    IN  v[8]

\* C15: the stop bit is never verified.  A read that passed its precondition
\* and in which no pin read fails has sampled the input pin exactly 9 times,
\* its last two operations are waits (no sample follows the wait of the
\* eighth data sample), and it returns Ok with the byte of its 8 data
\* samples.
C15_StopNotSampled ==
    (ReadReturned /\ NoPinFailure(trace) /\ trace[1] = Ev("is_high", "low")) =>
        /\ Len(SelectSeq(trace, IsSample)) = 9
        /\ IsWait(trace[Len(trace)])
        /\ IsWait(trace[Len(trace) - 1])
        /\ IsSample(trace[Len(trace) - 2])
        /\ result = Ok(SampleValue(trace))

\* a read on a free line has returned 0xFF after 9 samples
C15_Witness ==
    /\ ReadReturned
    /\ Len(rx_script) = 0
    /\ result = Ok(255)
    /\ Len(SelectSeq(trace, IsSample)) = 9

(* ---- C16 --------------------------------------------------------------- *)
\* C16: write never samples the input pin and read never drives the output
\* pin; no step of a read or of a flush changes the level last driven on
\* the output pin; write leaves the accumulator of read alone and read the
\* shift register of write.
C16_PathsApart ==
    [][/\ (op' = "write") =>
            /\ \A i \in 1 .. Len(trace') : ~IsSample(trace'[i])
            /\ data_in' = 0
       /\ (op' = "read") =>
            /\ \A i \in 1 .. Len(trace') : ~IsDrive(trace'[i])
            /\ data_out' = 0
       /\ (op' \in {"read", "flush"}) =>
            /\ tx_level' = tx_level
            /\ wire' = << >> \/ wire' = wire]_vars

\* a read has returned Ok on a unit whose output line was left low by a
\* write that failed
C16_Witness ==
    /\ ReadReturned
    /\ result.kind = "Ok"
    /\ tx_level = "low"

(* ---- C17 --------------------------------------------------------------- *)
\* the level of the k-th drive of the frame of b
FrameLevel(b, k) == IF ExpectedDriveOp(b, k) = "set_high" THEN "high" ELSE "low"

\* C17: no state carries over between calls.  Whatever calls came before,
\* the levels a write(b) has driven are the first levels of the frame of b,
\* the byte a read returns is the byte of the 8 data samples of that call,
\* and a call starts from the same locals.
C17_NoCarryOver ==
    /\ (op = "write") =>
        /\ Len(wire) <= 10
        /\ \A k \in 1 .. Len(wire) : wire[k] = FrameLevel(byte, k)
    /\ (ReadReturned /\ result.kind = "Ok") => result.val = SampleValue(trace)
    /\ (pc \in {"w_start", "r_start"}) =>
        /\ data_out = (IF pc = "w_start" THEN byte ELSE 0)
        /\ data_in = 0
        /\ bit = 0
        /\ nops = 0
        /\ polls = 0
        /\ trace = << >>
        /\ result = Pending

\* a write of 0x55 is under way on a unit whose line was left low by an
\* earlier call; it has driven low, high, low
C17_Witness ==
    /\ op = "write"
    /\ byte = 85
    /\ wire = <<"low", "high", "low">>
    /\ pc = "w_bitwait"

(* ---- C18 --------------------------------------------------------------- *)
\* C18: write, flush and read never return WouldBlock: write returns Ok or
\* a bus failure, flush returns Ok, read returns Ok, a bus failure or
\* InvalidInterrupt.
C18_NeverWouldBlock ==
    (pc = "idle" /\ op # "none") =>
        /\ result.kind # "WouldBlock"
        /\ (op = "write") => result.kind \in {"Ok", "Bus"}
        /\ (op = "flush") => result.kind = "Ok"
        /\ (op = "read") => result.kind \in {"Ok", "Bus", "InvalidInterrupt"}

\* a read has returned InvalidInterrupt on a unit whose timer has stopped
C18_Witness ==
    /\ pc = "idle"
    /\ op = "read"
    /\ result.kind = "InvalidInterrupt"
    /\ timer_stalled

(* ---- C19 --------------------------------------------------------------- *)
\* C19: a write that returns Ok leaves the output line high; the call of a
\* write does not touch the line and its start-bit drive puts it low, so a
\* frame that follows a successful write begins with a high-to-low
\* transition; a write that returns an error leaves the line at the last
\* level it drove with success (the level from before the call when the
\* start-bit drive failed) and has not driven the stop bit.
C19_LineAfterWrite ==
    [][/\ (WriteReturned' /\ result'.kind = "Ok") => tx_level' = "high"
       /\ (pc = "idle" /\ pc' = "w_start") => tx_level' = tx_level
       /\ (pc = "w_start" /\ pc' # "idle" /\ pc' # "w_start") =>
            tx_level' = "low"
       /\ (WriteReturned' /\ result'.kind = "Bus") =>
            /\ Len(wire') < 10
            /\ tx_level' = IF wire' # << >> THEN wire'[Len(wire')]
                           ELSE tx_level]_vars

\* a write has failed after driving a high data bit: the line stays high
\* with 5 levels driven
C19_Witness ==
    /\ WriteReturned
    /\ result.kind = "Bus"
    /\ Len(wire) = 5
    /\ tx_level = "high"
    /\ wire[5] = "high"

(* ---- C13 --------------------------------------------------------------- *)
\* the instants of the pin operations of a call, in order
PinTimes(tr, tm) ==
    LET stamped == [i \in 1 .. Len(tr) |-> [e |-> tr[i], at |-> tm[i]]]
        pins == SelectSeq(stamped, LAMBDA z : IsPinOp(z.e))
    IN  [k \in 1 .. Len(pins) |-> pins[k].at]

DataSampleAt(i) == rx_offset + PinTimes(trace, times)[i + 2]

\* the precondition sample was taken strictly inside the start-bit cell of
\* the frame: after the start-bit drive and before the first data-bit drive
InStartCell == wave[1].at < rx_offset /\ rx_offset < wave[2].at

\* C20: two units wired tx to rx, each with its own timer of the same
\* period.  When the read takes its precondition sample strictly inside the
\* start-bit cell of the frame of write(b) and no pin operation fails, each
\* of its 8 data samples falls inside the cell of the data bit of the same
\* rank (from the drive of that bit to the next drive) and the read returns
\* Ok(b).
C20_LinkedRead ==
    (ReadReturned /\ Len(wave) = 10 /\ InStartCell /\ NoPinFailure(trace)) =>
        /\ result = Ok(byte)
        /\ \A i \in 0 .. 7 :
            /\ wave[i + 2].at < DataSampleAt(i)
            /\ DataSampleAt(i) < wave[i + 3].at

\* the unit wired to the line has read 0xB2 from the frame of write(0xB2),
\* its precondition sample taken one tick after the start-bit drive
C20_Witness ==
    /\ ReadReturned
    /\ Len(wave) = 10
    /\ InStartCell
    /\ rx_offset = 1
    /\ byte = 178
    /\ result = Ok(178)

====
